---- MODULE Spec2Model ----
(***************************************************************************)
(* Model of rosi_leveler/script/chassis_control.py (class NodeClass).      *)
(*                                                                         *)
(* The node is one main thread running nodeMain (the 20 Hz loop) together  *)
(* with rospy callback threads: three subscriber callbacks and the service *)
(* callbacks.  No lock is taken anywhere in the file, so every load or     *)
(* store of a self.* attribute is a separate step that the other threads   *)
(* can interleave with.  nodeMain is therefore split at each load of an    *)
(* attribute that a service callback writes; the program counter `pc`      *)
(* carries the source line of the next load.  Loads of the sensor          *)
(* messages are grouped: the three tests of line 153 are one step (no      *)
(* callback stores None, so the test is monotonic), and lines 157-166 read *)
(* msg_imu and msg_grndDist in one step.  set_pose_set_point and           *)
(* set_pose_ctrl_gain store two attributes each and are two steps; one     *)
(* call of each is in progress at a time.                                  *)
(*                                                                         *)
(* Specifications.  Spec is the node from the wait of line 58 on, with the *)
(* robot's mounting geometry.  SpecFair is Spec with the busy wait of      *)
(* getParamWithWait weakly fair.  SpecKin is lines 97-106 of __init__ run  *)
(* for every mounting geometry of a grid.  SpecPose is the running node    *)
(* serving set_pose_set_point and get_pose_set_point alone, over a wider   *)
(* set of requests than Spec draws.                                        *)
(*                                                                         *)
(* Fixed point.  Quaternion components are integers (the orientations used *)
(* are the half-turn rotations, whose quaternions are 1, i, j, k up to      *)
(* sign), angles are in degrees, lengths are in units of 5 cm, gains are   *)
(* in units of 1/GainDen, and a published command is the code's command    *)
(* multiplied by CmdDen.                                                   *)
(***************************************************************************)
EXTENDS Integers, Sequences, FiniteSets, TLC

(***************************************************************************)
(* Bounds of the model.                                                    *)
(***************************************************************************)
\* at most this many service requests are handled in one run
MaxReq == 2

(***************************************************************************)
(* Python's None, and a local name that is not bound yet.                  *)
(***************************************************************************)
None == <<>>

\* gains are stored in tenths: 0.8 is 8
GainDen == 10

(***************************************************************************)
(* Quaternions <<w, x, y, z>> (numpy-quaternion) and dual quaternions      *)
(* <<p0..p3, d0..d3>> (dqrobotics DQ).                                     *)
(***************************************************************************)
QMul(a, b) ==
    << a[1]*b[1] - a[2]*b[2] - a[3]*b[3] - a[4]*b[4],
       a[1]*b[2] + a[2]*b[1] + a[3]*b[4] - a[4]*b[3],
       a[1]*b[3] - a[2]*b[4] + a[3]*b[1] + a[4]*b[2],
       a[1]*b[4] + a[2]*b[3] - a[3]*b[2] + a[4]*b[1] >>

QConj(a) == << a[1], -a[2], -a[3], -a[4] >>

QAdd(a, b) == [i \in 1..4 |-> a[i] + b[i]]

\* np.quaternion(w, x, y, z)
quaternion(w, x, y, z) == << w, x, y, z >>

\* DQ(p0, p1, p2, p3, d0, d1, d2, d3)
DQ(p0, p1, p2, p3, d0, d1, d2, d3) == << p0, p1, p2, p3, d0, d1, d2, d3 >>

DQPrimary(dq) == SubSeq(dq, 1, 4)

DQDual(dq) == SubSeq(dq, 5, 8)

\* DQ.vec8(): the eight coefficients in order
vec8(dq) == [i \in 1..8 |-> dq[i]]

\* DQ.conj(): the quaternion conjugate of both parts
DQConj(dq) == QConj(DQPrimary(dq)) \o QConj(DQDual(dq))

\* DQ.__mul__: (p1 + E d1)(p2 + E d2) = p1 p2 + E (p1 d2 + d1 p2)
DQMul(a, b) ==
    QMul(DQPrimary(a), DQPrimary(b))
      \o QAdd(QMul(DQPrimary(a), DQDual(b)), QMul(DQDual(a), DQPrimary(b)))

(***************************************************************************)
(* rosi_common.dq_tools, over the half-turn angles.                        *)
(***************************************************************************)
\* cos(a/2) for an angle in degrees that is a multiple of 180
CosHalf(a) ==
    CASE a = 0 -> 1
      [] a = 180 -> 0
      [] a = -180 -> 0
      [] a = 360 -> -1

\* sin(a/2) for an angle in degrees that is a multiple of 180
SinHalf(a) ==
    CASE a = 0 -> 0
      [] a = 180 -> 1
      [] a = -180 -> -1
      [] a = 360 -> 0

\* rpy2quat: roll about x, then pitch about y, then yaw about z (ZYX)
rpy2quat(rpy) ==
    LET cr == CosHalf(rpy[1])  sr == SinHalf(rpy[1])
        cp == CosHalf(rpy[2])  sp == SinHalf(rpy[2])
        cy == CosHalf(rpy[3])  sy == SinHalf(rpy[3])
    IN  << cr*cp*cy + sr*sp*sy,
           sr*cp*cy - cr*sp*sy,
           cr*sp*cy + sr*cp*sy,
           cr*cp*sy - sr*sp*cy >>

\* atan2(s, c) in degrees on the axes
Atan2Deg(s, c) ==
    CASE s = 0 /\ c > 0 -> 0
      [] s = 0 /\ c < 0 -> 180
      [] s > 0 /\ c = 0 -> 90
      [] s < 0 /\ c = 0 -> -90

\* asin(s) in degrees for s in {-1, 0, 1}
AsinDeg(s) ==
    CASE s = 0 -> 0
      [] s = 1 -> 90
      [] s = -1 -> -90

\* quat2rpy: the roll, pitch and yaw of a unit quaternion
quat2rpy(q) ==
    << Atan2Deg(2*(q[1]*q[2] + q[3]*q[4]), 1 - 2*(q[2]*q[2] + q[3]*q[3])),
       AsinDeg(2*(q[1]*q[3] - q[4]*q[2])),
       Atan2Deg(2*(q[1]*q[4] + q[2]*q[3]), 1 - 2*(q[3]*q[3] + q[4]*q[4])) >>

\* trAndOri2dq(tr, q, 'trfirst'): (1 + E tr/2) q = q + E (tr q)/2
trAndOri2dq(tr, q) ==
    LET d == QMul(<< 0, tr[1], tr[2], tr[3] >>, q)
    IN  q \o [i \in 1..4 |-> d[i] \div 2]

\* the translation of a pose: the vector part of 2 d conj(p)
dqExtractTransV3(dq) ==
    LET t == QMul(DQDual(dq), QConj(DQPrimary(dq)))
    IN  << 2*t[2], 2*t[3], 2*t[4] >>

\* dq2rpy: roll, pitch and yaw of the rotation part
dq2rpy(dq) == quat2rpy(DQPrimary(dq))

\* dqElementwiseMul: coefficient by coefficient
dqElementwiseMul(a, b) == [i \in 1..8 |-> a[i] * b[i]]

\* dq2trAndQuatArray: (translation, rotation quaternion) of a dual quaternion
dq2trAndQuatArray(dq) == << dqExtractTransV3(dq), DQPrimary(dq) >>

(***************************************************************************)
(* Kinematic model (rosi_model.rosi_description, rosi_common.rosi_tools).  *)
(***************************************************************************)
\* the (x, y) mounting offset of each of the four propulsion units
tr_base_piFlp == << << 2, 1 >>, << 2, -1 >>, << -2, 1 >>, << -2, -1 >> >>

\* unit i moves vertically by y_i per unit roll rate and by -x_i per unit pitch rate
compute_J_ori_dagger(p) == [i \in 1..4 |-> << p[i][2], -p[i][1] >>]

\* as above, with the height rate in front
compute_J_art_dagger(p) == [i \in 1..4 |-> << 1, p[i][2], -p[i][1] >>]

J_ori_dagger == compute_J_ori_dagger(tr_base_piFlp)

J_art_dagger == compute_J_art_dagger(tr_base_piFlp)

\* np.dot of a matrix (a tuple of rows) and a vector
Dot(m, v) ==
    [i \in 1..Len(m) |->
        LET row == m[i]
            Sum[k \in 0..Len(v)] == IF k = 0 THEN 0 ELSE Sum[k-1] + row[k] * v[k]
        IN  Sum[Len(v)]]

\* np.dot of two matrices (tuples of rows)
MatMul(a, b) ==
    [r \in 1..Len(a) |-> [c \in 1..Len(b[1]) |->
        LET Sum[k \in 0..Len(b)] == IF k = 0 THEN 0 ELSE Sum[k-1] + a[r][k] * b[k][c]
        IN  Sum[Len(b)]]]

\* the transpose of a matrix
Transpose(a) == [c \in 1..Len(a[1]) |-> [r \in 1..Len(a) |-> a[r][c]]]

\* the Gram matrix of a 4 x 2 matrix, G = A^T A (2 x 2)
GramOf(A) == MatMul(Transpose(A), A)

\* faulty variant: the transpose stands in for the pseudo-inverse
pinv_transpose(A) == [num |-> Transpose(A), den |-> 1]

\* np.linalg.pinv of a 4 x 2 integer matrix A, as num / den (2 x 4): the
\* Moore-Penrose inverse, (A^T A)^-1 A^T = adj(G) A^T / det G at rank 2,
\* A^T / trace(G) at rank 1 and the zero matrix at rank 0
pinv(A) ==
    LET G == GramOf(A)
        det == G[1][1] * G[2][2] - G[1][2] * G[2][1]
        adj == << << G[2][2], -G[1][2] >>, << -G[2][1], G[1][1] >> >>
    IN  IF det # 0 THEN [num |-> MatMul(adj, Transpose(A)), den |-> det]
        ELSE IF G[1][1] + G[2][2] # 0
             THEN [num |-> Transpose(A), den |-> G[1][1] + G[2][2]]
             ELSE [num |-> [r \in 1..2 |-> [c \in 1..4 |-> 0]], den |-> 1]

\* den * (np.eye(4) - np.dot(A, J)) for J = num / den
nsproj(A, num, den) ==
    LET AJ == MatMul(A, num)
    IN  [r \in 1..4 |-> [c \in 1..4 |-> (IF r = c THEN den ELSE 0) - AJ[r][c]]]

\* the Gram matrix of J_ori_dagger
Gram == GramOf(J_ori_dagger)

\* det G: the denominator of the pseudo-inverse and of the projector
ProjDen == pinv(J_ori_dagger).den

\* ProjDen * np.linalg.pinv(J_ori_dagger) (2 x 4)
J_ori == pinv(J_ori_dagger).num

\* ProjDen * (np.eye(4) - np.dot(J_ori_dagger, J_ori))
J_ori_nsproj == nsproj(J_ori_dagger, J_ori, ProjDen)

\* a published command is the code's command times CmdDen
CmdDen == GainDen * GainDen * ProjDen

(***************************************************************************)
(* Constructor parameters.                                                 *)
(***************************************************************************)
\* x_sp_ori_rpy = np.deg2rad([0, 0, 0])
x_sp_ori_rpy0 == << 0, 0, 0 >>

\* x_sp_tr = [0.0, 0.0, 0.3]
x_sp_tr0 == << 0, 0, 6 >>

\* kp_rot_v = [2.0, 4.0, 1.0]
kp_rot_v0 == << 20, 40, 10 >>

\* kp_tr_v = [1.0, 1.0, 0.8]
kp_tr_v0 == << 10, 10, 8 >>

\* flpJointPosSp_l = 4*[np.deg2rad(110)]
flpJointPosSp_l == << 110, 110, 110, 110 >>

\* kmu_l = 4*[0.3]
kmu_l == << 3, 3, 3, 3 >>

\* chassisCtrlType
chassisCtrlType == [orientation |-> 1, orientationNullSpace |-> 2, articulation |-> 3]

\* len(self.chassisCtrlType)
NumCtrlTypes == Cardinality(DOMAIN chassisCtrlType)

\* correctFlippersJointSignal: the sign convention of the four flipper joints
correctFlippersJointSignal(pos) == << pos[1], -pos[2], -pos[3], pos[4] >>

\* faulty variant: the pose is composed rotation first, q + E (q tr)/2
convertSetPoints2DqFormat_rotfirst(tr, rpy) ==
    LET q == rpy2quat(rpy)
        ori_q == quaternion(q[1], q[2], q[3], q[4])
        d == QMul(ori_q, << 0, tr[1], tr[2], tr[3] >>)
    IN  << ori_q, ori_q \o [i \in 1..4 |-> d[i] \div 2] >>

\* convertSetPoints2DqFormat(tr, rpy) = (ori_q, pose_dq)
convertSetPoints2DqFormat(tr, rpy) ==
    LET q == rpy2quat(rpy)
        ori_q == quaternion(q[1], q[2], q[3], q[4])
    IN  << ori_q, trAndOri2dq(tr, ori_q) >>

(***************************************************************************)
(* The inputs the environment draws from.                                  *)
(***************************************************************************)
\* IMU orientations: level, and a half turn about y (roll 180, yaw 180)
ImuValues == { << 1, 0, 0, 0 >>, << 0, 0, 1, 0 >> }

\* vec[0].z of the ground distance message: the chassis on the ground
GrndDistValues == { 0 }

\* JointState.position: four traction joints, then the four flipper joints
JointPosValues ==
    { << 0, 0, 0, 0, 110, -110, -110, 110 >>,
      << 0, 0, 0, 0, 100, -110, -110, 110 >> }

\* set_pose_set_point requests: (translation, rpy)
PoseRequests ==
    { << << 0, 0, 0 >>, << 0, 0, 0 >> >>,
      << << 2, 0, 6 >>, << 180, 0, 0 >> >> }

\* set_pose_set_point requests for the set-point services on their own: three
\* translations, and every roll, pitch and yaw of -180, 0 or 180 degrees
PoseCases ==
    { << 0, 0, 0 >>, << 2, 0, 6 >>, << 0, -4, 2 >> }
      \X { << r, p, y >> : r \in { -180, 0, 180 }, p \in { -180, 0, 180 },
                           y \in { -180, 0, 180 } }

\* set_pose_ctrl_gain requests: (kp_ori, kp_tr)
GainRequests ==
    { << << 30, 50, 70 >>, << 90, 110, 130 >> >> }

\* set_ctrl_type requests
CtrlTypeRequests == -1 .. 5

\* values of the parameter /rosi/forward_side (boxed, None being << >>)
ParamValues == { << "a" >> }

(***************************************************************************)
(* State.                                                                  *)
(***************************************************************************)
VARIABLES
    pc,             \* nodeMain's position: the source line of its next step
    param,          \* the parameter server's /rosi/forward_side (None: not set)
    drive_side,     \* self.drive_side
    active,         \* self.ns: the 'active' node status flag
    msg_imu,        \* self.msg_imu: the orientation quaternion of the last Imu
    msg_grndDist,   \* self.msg_grndDist: << vec[0].z >> of the last message
    msg_jointState, \* self.msg_jointState: position of the last JointState
    ctrlType_curr,  \* self.ctrlType_curr
    x_sp_ori_q,     \* self.x_sp_ori_q
    x_sp_dq,        \* self.x_sp_dq
    kp_o_q,         \* self.kp_o_q
    kp_a_dq,        \* self.kp_a_dq
    x_o_R_q,        \* nodeMain's locals
    x_a_R_dq,
    e_o_R_q,
    e_a_R_dq,
    u_Pi_v,
    branch,         \* the path this tick took through nodeMain
    out,            \* the messages this tick has published, in order
    posePend,       \* set_pose_set_point between its two stores: the value to store
    gainPend,       \* set_pose_ctrl_gain between its two stores: the request
    srvResp,        \* the response of the last service call
    lastGainReq,    \* the request of the last set_pose_ctrl_gain call that returned
    poseReq,        \* the request of the last set_pose_set_point call (None: none yet)
    nReq,           \* service requests handled so far
    geometry,       \* tr_base_piFlp.values(): the mounting offsets of this run
    kin             \* self.J_ori_dagger, J_ori, J_ori_nsproj, J_art_dagger

shared == << active, msg_imu, msg_grndDist, msg_jointState, ctrlType_curr,
             x_sp_ori_q, x_sp_dq, kp_o_q, kp_a_dq >>

locals == << x_o_R_q, x_a_R_dq, e_o_R_q, e_a_R_dq, u_Pi_v >>

sensors == << msg_imu, msg_grndDist, msg_jointState >>

setpoint == << x_sp_ori_q, x_sp_dq >>

gains == << kp_o_q, kp_a_dq >>

srv == << posePend, gainPend, srvResp, lastGainReq, poseReq, nReq >>

kinematics == << geometry, kin >>

vars == << pc, param, drive_side, shared, locals, branch, out, srv, kinematics >>

\* the lines of nodeMain at which the loop is running
Running == { "l150", "l153", "l157", "l171a", "l171b", "l174", "l177", "l182",
             "l185", "l198", "l201", "l204", "l226", "l242", "l246a", "l246b",
             "l254", "l258" }

\* subscribers and services exist once __init__ has passed line 134
Registered == pc \in Running

(***************************************************************************)
(* __init__, lines 97-106: the kinematic model of a mounting geometry.     *)
(***************************************************************************)
\* mounting offsets on a grid: the robot's, and geometries of rank 2, 1 and 0
Geometries == [1..4 -> { -2, 0, 2 } \X { -1, 0, 1 }]

\* the attributes of lines 97-106 before they are assigned
NoKin == [J_ori_dagger |-> None, J_ori |-> None, J_ori_nsproj |-> None,
          J_art_dagger |-> None]

\* the attributes of lines 97-106 once assigned, for the offsets p
Kinematics(p) ==
    [J_ori_dagger |-> compute_J_ori_dagger(p),
     J_ori |-> pinv(compute_J_ori_dagger(p)),
     J_ori_nsproj |-> nsproj(compute_J_ori_dagger(p),
                             pinv(compute_J_ori_dagger(p)).num,
                             pinv(compute_J_ori_dagger(p)).den),
     J_art_dagger |-> compute_J_art_dagger(p)]

\* 97: self.J_ori_dagger = compute_J_ori_dagger(tr_base_piFlp.values())
init_97 ==
    /\ pc = "l97"
    /\ kin' = [kin EXCEPT !.J_ori_dagger = compute_J_ori_dagger(geometry)]
    /\ pc' = "l100"
    /\ UNCHANGED << param, drive_side, shared, locals, branch, out, srv, geometry >>

\* 100: self.J_ori = np.linalg.pinv(self.J_ori_dagger)
init_100 ==
    /\ pc = "l100"
    /\ kin' = [kin EXCEPT !.J_ori = pinv(kin.J_ori_dagger)]
    /\ pc' = "l103"
    /\ UNCHANGED << param, drive_side, shared, locals, branch, out, srv, geometry >>

\* 103: self.J_ori_nsproj = np.eye(4) - np.dot(self.J_ori_dagger, self.J_ori)
init_103 ==
    /\ pc = "l103"
    /\ kin' = [kin EXCEPT !.J_ori_nsproj =
                   nsproj(kin.J_ori_dagger, kin.J_ori.num, kin.J_ori.den)]
    /\ pc' = "l106"
    /\ UNCHANGED << param, drive_side, shared, locals, branch, out, srv, geometry >>

\* 106: self.J_art_dagger = compute_J_art_dagger(tr_base_piFlp.values())
init_106 ==
    /\ pc = "l106"
    /\ kin' = [kin EXCEPT !.J_art_dagger = compute_J_art_dagger(geometry)]
    /\ pc' = "l111"
    /\ UNCHANGED << param, drive_side, shared, locals, branch, out, srv, geometry >>

(***************************************************************************)
(* __init__: the state once the attributes of lines 27-107 are assigned.   *)
(* Nothing can call into the node before line 119, and lines 59-107 do not *)
(* depend on the parameter, so the attributes carry their constructor      *)
(* values while line 58 still waits.                                       *)
(***************************************************************************)
\* the attributes of lines 63-94 and the local names of nodeMain
Constructed ==
    /\ active = TRUE
    /\ msg_imu = None
    /\ msg_grndDist = None
    /\ msg_jointState = None
    /\ ctrlType_curr = chassisCtrlType.orientation
    /\ x_sp_ori_q = convertSetPoints2DqFormat(x_sp_tr0, x_sp_ori_rpy0)[1]
    /\ x_sp_dq = convertSetPoints2DqFormat(x_sp_tr0, x_sp_ori_rpy0)[2]
    /\ kp_o_q = quaternion(GainDen, kp_rot_v0[1], kp_rot_v0[2], kp_rot_v0[3])
    /\ kp_a_dq = DQ(GainDen, kp_rot_v0[1], kp_rot_v0[2], kp_rot_v0[3],
                    GainDen, kp_tr_v0[1], kp_tr_v0[2], kp_tr_v0[3])
    /\ x_o_R_q = None
    /\ x_a_R_dq = None
    /\ e_o_R_q = None
    /\ e_a_R_dq = None
    /\ u_Pi_v = None
    /\ branch = "none"
    /\ out = << >>
    /\ posePend = None
    /\ gainPend = None
    /\ srvResp = [srv |-> "none", ret |-> << >>]
    /\ lastGainReq = None
    /\ poseReq = None
    /\ nReq = 0

Init ==
    /\ pc = "l58"
    /\ param = None
    /\ drive_side = None
    /\ geometry = tr_base_piFlp
    /\ kin = Kinematics(tr_base_piFlp)
    /\ Constructed

(***************************************************************************)
(* The parameter server and getParamWithWait.                              *)
(***************************************************************************)
\* some other node sets /rosi/forward_side
SetParam(v) ==
    /\ pc # "exit" /\ pc # "crashed"
    /\ param # v
    /\ param' = v
    /\ UNCHANGED << kinematics, pc, drive_side, shared, locals, branch, out,
                    srv >>

\* faulty variant: the parameter is got after one test, whether it exists or not
getParamWithWait_noWait ==
    /\ pc = "l58"
    /\ pc' = "l150" /\ drive_side' = param
    /\ UNCHANGED << kinematics, param, shared, locals, branch, out, srv >>

\* while not rospy.has_param(path): loginfo;  return rospy.get_param(path)
getParamWithWait ==
    /\ pc = "l58"
    /\ IF param = None
       THEN UNCHANGED << pc, drive_side >>
       ELSE pc' = "l150" /\ drive_side' = param
    /\ UNCHANGED << kinematics, param, shared, locals, branch, out, srv >>

(***************************************************************************)
(* Topic callbacks.                                                        *)
(***************************************************************************)
cllbck_imu(msg) ==
    /\ Registered
    /\ msg_imu' = msg
    /\ UNCHANGED << kinematics, pc, param, drive_side, active, msg_grndDist,
                    msg_jointState, ctrlType_curr, setpoint, gains, locals,
                    branch, out, srv >>

\* faulty variant: the ground distance message is stored in the IMU field
cllbck_grndDist_intoImu(msg) ==
    /\ Registered
    /\ msg_imu' = msg
    /\ UNCHANGED << kinematics, pc, param, drive_side, active, msg_grndDist,
                    msg_jointState, ctrlType_curr, setpoint, gains, locals,
                    branch, out, srv >>

cllbck_grndDist(msg) ==
    /\ Registered
    /\ msg_grndDist' = msg
    /\ UNCHANGED << kinematics, pc, param, drive_side, active, msg_imu,
                    msg_jointState, ctrlType_curr, setpoint, gains, locals,
                    branch, out, srv >>

cllbck_jointState(msg) ==
    /\ Registered
    /\ msg_jointState' = msg
    /\ UNCHANGED << kinematics, pc, param, drive_side, active, msg_imu,
                    msg_grndDist, ctrlType_curr, setpoint, gains, locals,
                    branch, out, srv >>

(***************************************************************************)
(* Service callbacks.  Each runs in a thread of its own; a callback that   *)
(* stores two attributes is two steps.                                     *)
(***************************************************************************)
CanServe == Registered /\ nReq < MaxReq

\* self.ns.defActiveServiceReq(req, rospy): the flag takes the requested value
srvcllbck_setActive(v) ==
    /\ CanServe
    /\ active' = v
    /\ srvResp' = [srv |-> "setActive", ret |-> << v >>]
    /\ nReq' = nReq + 1
    /\ UNCHANGED << kinematics, pc, param, drive_side, sensors, ctrlType_curr,
                    setpoint, gains, locals, branch, out, posePend, poseReq,
                    gainPend, lastGainReq >>

\* self.x_sp_ori_q, self.x_sp_dq = convertSetPoints2DqFormat(...): the first store
srvcllbck_setPoseSetPoint_ori(req) ==
    /\ CanServe
    /\ posePend = None
    /\ x_sp_ori_q' = convertSetPoints2DqFormat(req[1], req[2])[1]
    /\ posePend' = convertSetPoints2DqFormat(req[1], req[2])[2]
    /\ poseReq' = req
    /\ nReq' = nReq + 1
    /\ UNCHANGED << kinematics, pc, param, drive_side, active, sensors,
                    ctrlType_curr, x_sp_dq, gains, locals, branch, out,
                    gainPend, srvResp, lastGainReq >>

\* the second store, and return True
srvcllbck_setPoseSetPoint_dq ==
    /\ Registered
    /\ posePend # None
    /\ x_sp_dq' = posePend
    /\ posePend' = None
    /\ srvResp' = [srv |-> "setPoseSetPoint", ret |-> << TRUE >>]
    /\ UNCHANGED << kinematics, pc, param, drive_side, active, sensors,
                    ctrlType_curr, x_sp_ori_q, gains, locals, branch, out,
                    gainPend, lastGainReq, poseReq, nReq >>

\* self.kp_o_q = np.quaternion(1, req.kp_ori[0], req.kp_ori[1], req.kp_ori[2])
srvcllbck_setPoseCtrlGain_o(req) ==
    /\ CanServe
    /\ gainPend = None
    /\ kp_o_q' = quaternion(GainDen, req[1][1], req[1][2], req[1][3])
    /\ gainPend' = req
    /\ nReq' = nReq + 1
    /\ UNCHANGED << kinematics, pc, param, drive_side, active, sensors,
                    ctrlType_curr, setpoint, kp_a_dq, locals, branch, out,
                    posePend, poseReq, srvResp, lastGainReq >>

\* faulty variant: the dual quaternion is stored into the set-point
srvcllbck_setPoseCtrlGain_a_intoSetPoint ==
    /\ Registered
    /\ gainPend # None
    /\ x_sp_dq' = DQ(GainDen, gainPend[1][1], gainPend[1][2], gainPend[1][3],
                     GainDen, gainPend[2][1], gainPend[2][2], gainPend[2][3])
    /\ lastGainReq' = gainPend
    /\ gainPend' = None
    /\ srvResp' = [srv |-> "setPoseCtrlGain", ret |-> << TRUE >>]
    /\ UNCHANGED << kinematics, pc, param, drive_side, active, sensors,
                    ctrlType_curr, x_sp_ori_q, gains, locals, branch, out,
                    posePend, poseReq, nReq >>

\* self.kp_a_dq = DQ(1, kp_ori..., 1, kp_tr...);  return True
srvcllbck_setPoseCtrlGain_a ==
    /\ Registered
    /\ gainPend # None
    /\ kp_a_dq' = DQ(GainDen, gainPend[1][1], gainPend[1][2], gainPend[1][3],
                     GainDen, gainPend[2][1], gainPend[2][2], gainPend[2][3])
    /\ lastGainReq' = gainPend
    /\ gainPend' = None
    /\ srvResp' = [srv |-> "setPoseCtrlGain", ret |-> << TRUE >>]
    /\ UNCHANGED << kinematics, pc, param, drive_side, active, sensors,
                    ctrlType_curr, setpoint, kp_o_q, locals, branch, out,
                    posePend, poseReq, nReq >>

\* return [dqExtractTransV3(self.x_sp_dq)..., dq2rpy(self.x_sp_dq)]
srvcllbck_getPoseSetPoint ==
    /\ CanServe
    /\ srvResp' = [srv |-> "getPoseSetPoint",
                   ret |-> << dqExtractTransV3(x_sp_dq), dq2rpy(x_sp_dq) >>]
    /\ nReq' = nReq + 1
    /\ UNCHANGED << kinematics, pc, param, drive_side, shared, locals, branch,
                    out, posePend, poseReq, gainPend, lastGainReq >>

\* faulty variant: the slices start one coefficient early, return [aux[0:3], aux[4:7]]
srvcllbck_getPoseCtrlGain_sliceFrom0 ==
    /\ CanServe
    /\ srvResp' = [srv |-> "getPoseCtrlGain",
                   ret |-> << SubSeq(vec8(kp_a_dq), 1, 3),
                              SubSeq(vec8(kp_a_dq), 5, 7) >>]
    /\ nReq' = nReq + 1
    /\ UNCHANGED << kinematics, pc, param, drive_side, shared, locals, branch,
                    out, posePend, poseReq, gainPend, lastGainReq >>

\* aux = self.kp_a_dq.vec8().tolist();  return [aux[1:4], aux[5:]]
srvcllbck_getPoseCtrlGain ==
    /\ CanServe
    /\ srvResp' = [srv |-> "getPoseCtrlGain",
                   ret |-> << SubSeq(vec8(kp_a_dq), 2, 4),
                              SubSeq(vec8(kp_a_dq), 6, 8) >>]
    /\ nReq' = nReq + 1
    /\ UNCHANGED << kinematics, pc, param, drive_side, shared, locals, branch,
                    out, posePend, poseReq, gainPend, lastGainReq >>

\* faulty variant: the lower bound of the range test is 0
srvcllbck_setCtrlType_from0(value) ==
    /\ CanServe
    /\ IF value >= 0 /\ value <= NumCtrlTypes
       THEN /\ ctrlType_curr' = value
            /\ srvResp' = [srv |-> "setCtrlType", ret |-> << value >>]
       ELSE /\ ctrlType_curr' = ctrlType_curr
            /\ srvResp' = [srv |-> "setCtrlType", ret |-> << -1 >>]
    /\ nReq' = nReq + 1
    /\ UNCHANGED << kinematics, pc, param, drive_side, active, sensors,
                    setpoint, gains, locals, branch, out, posePend, poseReq,
                    gainPend, lastGainReq >>

\* faulty variant: the upper bound of the range test is one too large
srvcllbck_setCtrlType_upTo4(value) ==
    /\ CanServe
    /\ IF value >= 1 /\ value <= NumCtrlTypes + 1
       THEN /\ ctrlType_curr' = value
            /\ srvResp' = [srv |-> "setCtrlType", ret |-> << value >>]
       ELSE /\ ctrlType_curr' = ctrlType_curr
            /\ srvResp' = [srv |-> "setCtrlType", ret |-> << -1 >>]
    /\ nReq' = nReq + 1
    /\ UNCHANGED << kinematics, pc, param, drive_side, active, sensors,
                    setpoint, gains, locals, branch, out, posePend, poseReq,
                    gainPend, lastGainReq >>

\* faulty variant: an accepted value is answered but not stored
srvcllbck_setCtrlType_noStore(value) ==
    /\ CanServe
    /\ IF value >= 1 /\ value <= NumCtrlTypes
       THEN /\ ctrlType_curr' = ctrlType_curr
            /\ srvResp' = [srv |-> "setCtrlType", ret |-> << ctrlType_curr >>]
       ELSE /\ ctrlType_curr' = ctrlType_curr
            /\ srvResp' = [srv |-> "setCtrlType", ret |-> << -1 >>]
    /\ nReq' = nReq + 1
    /\ UNCHANGED << kinematics, pc, param, drive_side, active, sensors,
                    setpoint, gains, locals, branch, out, posePend, poseReq,
                    gainPend, lastGainReq >>

\* if req.value >= 1 and req.value <= len(self.chassisCtrlType): ... else: -1
srvcllbck_setCtrlType(value) ==
    /\ CanServe
    /\ IF value >= 1 /\ value <= NumCtrlTypes
       THEN /\ ctrlType_curr' = value
            /\ srvResp' = [srv |-> "setCtrlType", ret |-> << value >>]
       ELSE /\ ctrlType_curr' = ctrlType_curr
            /\ srvResp' = [srv |-> "setCtrlType", ret |-> << -1 >>]
    /\ nReq' = nReq + 1
    /\ UNCHANGED << kinematics, pc, param, drive_side, active, sensors,
                    setpoint, gains, locals, branch, out, posePend, poseReq,
                    gainPend, lastGainReq >>

\* ret.ret = int(self.ctrlType_curr)
srvcllbck_getCtrlType ==
    /\ CanServe
    /\ srvResp' = [srv |-> "getCtrlType", ret |-> << ctrlType_curr >>]
    /\ nReq' = nReq + 1
    /\ UNCHANGED << kinematics, pc, param, drive_side, shared, locals, branch,
                    out, posePend, poseReq, gainPend, lastGainReq >>

(***************************************************************************)
(* The control laws of nodeMain, as functions of what the tick has read.   *)
(***************************************************************************)
Scale(k, v) == [i \in 1..Len(v) |-> k * v[i]]

VecAdd(a, b) == [i \in 1..Len(a) |-> a[i] + b[i]]

\* de-yawed orientation: q_imu * rpy2quat([0, 0, quat2rpy(q_imu)[2]])
DeYaw(q_imu) ==
    LET rpy == quat2rpy(q_imu)
        q_yawcorr == rpy2quat(<< 0, 0, rpy[3] >>)
    IN  QMul(q_imu, quaternion(q_yawcorr[1], q_yawcorr[2], q_yawcorr[3], q_yawcorr[4]))

\* e_o_R_q = self.x_sp_ori_q.conj() * x_o_R_q
OriError(sp_ori_q, x_o) == QMul(QConj(sp_ori_q), x_o)

\* u_Pi_v = J_ori_dagger . [u_o_R_q[1], u_o_R_q[2]], u_o_R_q = kp.conj() (*) e
OriCmd(kp, e_o) ==
    LET u_o_R_q == [i \in 1..4 |-> QConj(kp)[i] * e_o[i]]
        u_o_R_v == << u_o_R_q[2], u_o_R_q[3] >>
    IN  Scale(GainDen * ProjDen, Dot(J_ori_dagger, u_o_R_v))

\* faulty variant: the flipper positions are used without the sign correction
Mu_uncorrected(position) ==
    LET flpJPos_l == SubSeq(position, 5, Len(position))
    IN  [i \in 1..4 |-> kmu_l[i] * (flpJointPosSp_l[i] - flpJPos_l[i])]

\* mu = [ki * (jsp - jcurr) ...] over the sign-corrected position[4:]
Mu(position) ==
    LET flpJPos_l == correctFlippersJointSignal(SubSeq(position, 5, Len(position)))
    IN  [i \in 1..4 |-> kmu_l[i] * (flpJointPosSp_l[i] - flpJPos_l[i])]

\* aux_u = np.dot(self.J_ori_nsproj, mu)
NullSpaceCmd(position) == Scale(GainDen, Dot(J_ori_nsproj, Mu(position)))

\* e_a_R_dq = self.x_sp_dq.conj() * x_a_R_dq
ArtError(sp_dq, x_a) == DQMul(DQConj(sp_dq), x_a)

\* faulty variant: the rotation part is indexed one component early
ArtCmd_indexFrom0(kp, e_a) ==
    LET u_a_R_dq == dqElementwiseMul(DQConj(kp), e_a)
        trq == dq2trAndQuatArray(u_a_R_dq)
        u_a_R == << trq[1][3], GainDen * trq[2][1], GainDen * trq[2][2] >>
    IN  Scale(ProjDen, Dot(J_art_dagger, u_a_R))

\* u_Pi_v = J_art_dagger . [u_a_R_tr[2], u_a_R_q[1], u_a_R_q[2]]
ArtCmd(kp, e_a) ==
    LET u_a_R_dq == dqElementwiseMul(DQConj(kp), e_a)
        trq == dq2trAndQuatArray(u_a_R_dq)
        u_a_R == << trq[1][3], GainDen * trq[2][2], GainDen * trq[2][3] >>
    IN  Scale(ProjDen, Dot(J_art_dagger, u_a_R))

ZeroCmd == << 0, 0, 0, 0 >>

Msg(topic, data) == [topic |-> topic, data |-> data]

(***************************************************************************)
(* nodeMain, one step per load of shared state.                            *)
(***************************************************************************)
\* faulty variant: the status flag is not tested
nodeMain_150_always ==
    /\ pc = "l150"
    /\ pc' = "l153" /\ branch' = branch
    /\ UNCHANGED << kinematics, param, drive_side, shared, locals, out, srv >>

\* 150: if self.ns.getNodeStatus()['active']
nodeMain_150 ==
    /\ pc = "l150"
    /\ IF active
       THEN pc' = "l153" /\ branch' = branch
       ELSE pc' = "l258" /\ branch' = "inactive"
    /\ UNCHANGED << kinematics, param, drive_side, shared, locals, out, srv >>

\* faulty variant: the joint state is not tested
nodeMain_153_twoOfThree ==
    /\ pc = "l153"
    /\ IF msg_grndDist # None /\ msg_imu # None
       THEN pc' = "l157" /\ branch' = branch
       ELSE pc' = "l258" /\ branch' = "notready"
    /\ UNCHANGED << kinematics, param, drive_side, shared, locals, out, srv >>

\* 153: if the three messages are not None
nodeMain_153 ==
    /\ pc = "l153"
    /\ IF msg_grndDist # None /\ msg_jointState # None /\ msg_imu # None
       THEN pc' = "l157" /\ branch' = branch
       ELSE pc' = "l258" /\ branch' = "notready"
    /\ UNCHANGED << kinematics, param, drive_side, shared, locals, out, srv >>

\* faulty variant: the IMU message is consumed by the tick that reads it
nodeMain_157_consume ==
    /\ pc = "l157"
    /\ x_o_R_q' = DeYaw(msg_imu)
    /\ x_a_R_dq' = trAndOri2dq(<< 0, 0, msg_grndDist[1] >>, DeYaw(msg_imu))
    /\ msg_imu' = None
    /\ branch' = "run"
    /\ pc' = "l171a"
    /\ UNCHANGED << kinematics, param, drive_side, active, msg_grndDist,
                    msg_jointState, ctrlType_curr, setpoint, gains, e_o_R_q,
                    e_a_R_dq, u_Pi_v, out, srv >>

\* 157-166: the de-yawed orientation and the articulation pose
nodeMain_157 ==
    /\ pc = "l157"
    /\ x_o_R_q' = DeYaw(msg_imu)
    /\ x_a_R_dq' = trAndOri2dq(<< 0, 0, msg_grndDist[1] >>, DeYaw(msg_imu))
    /\ branch' = "run"
    /\ pc' = "l171a"
    /\ UNCHANGED << kinematics, param, drive_side, shared, e_o_R_q, e_a_R_dq,
                    u_Pi_v, out, srv >>

\* 171: if self.ctrlType_curr == orientation ...
nodeMain_171a ==
    /\ pc = "l171a"
    /\ pc' = IF ctrlType_curr = chassisCtrlType.orientation THEN "l174" ELSE "l171b"
    /\ UNCHANGED << kinematics, param, drive_side, shared, locals, branch,
                    out, srv >>

\* 171: ... or self.ctrlType_curr == orientationNullSpace
nodeMain_171b ==
    /\ pc = "l171b"
    /\ pc' = IF ctrlType_curr = chassisCtrlType.orientationNullSpace
             THEN "l174" ELSE "l198"
    /\ UNCHANGED << kinematics, param, drive_side, shared, locals, branch,
                    out, srv >>

\* 174: the orientation error
nodeMain_174 ==
    /\ pc = "l174"
    /\ e_o_R_q' = OriError(x_sp_ori_q, x_o_R_q)
    /\ branch' = "ori"
    /\ pc' = "l177"
    /\ UNCHANGED << kinematics, param, drive_side, shared, x_o_R_q, x_a_R_dq,
                    e_a_R_dq, u_Pi_v, out, srv >>

\* 177-179: the orientation command
nodeMain_177 ==
    /\ pc = "l177"
    /\ u_Pi_v' = OriCmd(kp_o_q, e_o_R_q)
    /\ pc' = "l182"
    /\ UNCHANGED << kinematics, param, drive_side, shared, x_o_R_q, x_a_R_dq,
                    e_o_R_q, e_a_R_dq, branch, out, srv >>

\* 182: if self.ctrlType_curr == orientationNullSpace
nodeMain_182 ==
    /\ pc = "l182"
    /\ pc' = IF ctrlType_curr = chassisCtrlType.orientationNullSpace
             THEN "l185" ELSE "l226"
    /\ UNCHANGED << kinematics, param, drive_side, shared, locals, branch,
                    out, srv >>

\* 185-194: the null-space component is added
nodeMain_185 ==
    /\ pc = "l185"
    /\ u_Pi_v' = VecAdd(u_Pi_v, NullSpaceCmd(msg_jointState))
    /\ branch' = "ns"
    /\ pc' = "l226"
    /\ UNCHANGED << kinematics, param, drive_side, shared, x_o_R_q, x_a_R_dq,
                    e_o_R_q, e_a_R_dq, out, srv >>

\* 198: elif self.ctrlType_curr == articulation;  217-218: else the zero command
nodeMain_198 ==
    /\ pc = "l198"
    /\ IF ctrlType_curr = chassisCtrlType.articulation
       THEN pc' = "l201" /\ UNCHANGED << u_Pi_v, branch >>
       ELSE pc' = "l226" /\ u_Pi_v' = ZeroCmd /\ branch' = "invalid"
    /\ UNCHANGED << kinematics, param, drive_side, shared, x_o_R_q, x_a_R_dq,
                    e_o_R_q, e_a_R_dq, out, srv >>

\* 201: the pose error
nodeMain_201 ==
    /\ pc = "l201"
    /\ e_a_R_dq' = ArtError(x_sp_dq, x_a_R_dq)
    /\ branch' = "art"
    /\ pc' = "l204"
    /\ UNCHANGED << kinematics, param, drive_side, shared, x_o_R_q, x_a_R_dq,
                    e_o_R_q, u_Pi_v, out, srv >>

\* 204-213: the articulation command
nodeMain_204 ==
    /\ pc = "l204"
    /\ u_Pi_v' = ArtCmd(kp_a_dq, e_a_R_dq)
    /\ pc' = "l226"
    /\ UNCHANGED << kinematics, param, drive_side, shared, x_o_R_q, x_a_R_dq,
                    e_o_R_q, e_a_R_dq, branch, out, srv >>

\* 226-239: re-read the parameter, publish the command and the current pose
nodeMain_226 ==
    /\ pc = "l226"
    /\ drive_side' = param
    /\ out' = out \o << Msg("cmd_v_z", u_Pi_v), Msg("pose_current", vec8(x_a_R_dq)) >>
    /\ pc' = "l242"
    /\ UNCHANGED << kinematics, param, shared, locals, branch, srv >>

\* 242-243: publish the pose set-point
nodeMain_242 ==
    /\ pc = "l242"
    /\ out' = Append(out, Msg("pose_sp", vec8(x_sp_dq)))
    /\ pc' = "l246a"
    /\ UNCHANGED << kinematics, param, drive_side, shared, locals, branch,
                    srv >>

\* 248-251: e_a_R_dq is built from e_o_R_q and published; an unbound e_o_R_q
\* raises UnboundLocalError, which ends nodeMain
PublishErrorFromOri ==
    IF e_o_R_q = None
    THEN pc' = "crashed" /\ UNCHANGED << e_a_R_dq, out >>
    ELSE /\ e_a_R_dq' = DQ(e_o_R_q[1], e_o_R_q[2], e_o_R_q[3], e_o_R_q[4], 0, 0, 0, 0)
         /\ out' = Append(out, Msg("pose_error", vec8(e_a_R_dq')))
         /\ pc' = "l254"

\* 250-251: e_a_R_dq is published as it is; unbound, it raises UnboundLocalError
PublishErrorAsIs ==
    IF e_a_R_dq = None
    THEN pc' = "crashed" /\ UNCHANGED << e_a_R_dq, out >>
    ELSE /\ out' = Append(out, Msg("pose_error", vec8(e_a_R_dq)))
         /\ pc' = "l254"
         /\ UNCHANGED e_a_R_dq

\* 246: if self.ctrlType_curr == orientation ...
nodeMain_246a ==
    /\ pc = "l246a"
    /\ IF ctrlType_curr = chassisCtrlType.orientation
       THEN PublishErrorFromOri
       ELSE pc' = "l246b" /\ UNCHANGED << e_a_R_dq, out >>
    /\ UNCHANGED << kinematics, param, drive_side, shared, x_o_R_q, x_a_R_dq,
                    e_o_R_q, u_Pi_v, branch, srv >>

\* 246: ... or self.ctrlType_curr == orientationNullSpace
nodeMain_246b ==
    /\ pc = "l246b"
    /\ IF ctrlType_curr = chassisCtrlType.orientationNullSpace
       THEN PublishErrorFromOri
       ELSE PublishErrorAsIs
    /\ UNCHANGED << kinematics, param, drive_side, shared, x_o_R_q, x_a_R_dq,
                    e_o_R_q, u_Pi_v, branch, srv >>

\* 254-255: publish the controller gain
nodeMain_254 ==
    /\ pc = "l254"
    /\ out' = Append(out, Msg("sp_dq", vec8(kp_a_dq)))
    /\ pc' = "l258"
    /\ UNCHANGED << kinematics, param, drive_side, shared, locals, branch,
                    srv >>

\* 258, 147: sleep, then the next iteration unless rospy.is_shutdown().  The
\* locals that every tick assigns before it reads them are cleared; e_o_R_q
\* and e_a_R_dq keep their values, as Python locals do.
nodeMain_258 ==
    /\ pc = "l258"
    /\ \/ pc' = "l150"
       \/ pc' = "exit"
    /\ x_o_R_q' = None
    /\ x_a_R_dq' = None
    /\ u_Pi_v' = None
    /\ branch' = "none"
    /\ out' = << >>
    /\ UNCHANGED << kinematics, param, drive_side, shared, e_o_R_q, e_a_R_dq,
                    srv >>

nodeMain ==
    \/ nodeMain_150 \/ nodeMain_153 \/ nodeMain_157
    \/ nodeMain_171a \/ nodeMain_171b \/ nodeMain_174 \/ nodeMain_177
    \/ nodeMain_182 \/ nodeMain_185 \/ nodeMain_198 \/ nodeMain_201
    \/ nodeMain_204 \/ nodeMain_226 \/ nodeMain_242 \/ nodeMain_246a
    \/ nodeMain_246b \/ nodeMain_254 \/ nodeMain_258

SensorCallback ==
    \/ \E m \in ImuValues : cllbck_imu(m)
    \/ \E z \in GrndDistValues : cllbck_grndDist(<< z >>)
    \/ \E p \in JointPosValues : cllbck_jointState(p)

SetRequest ==
    \/ \E v \in BOOLEAN : srvcllbck_setActive(v)
    \/ \E r \in PoseRequests : srvcllbck_setPoseSetPoint_ori(r)
    \/ srvcllbck_setPoseSetPoint_dq
    \/ \E r \in GainRequests : srvcllbck_setPoseCtrlGain_o(r)
    \/ srvcllbck_setPoseCtrlGain_a
    \/ \E v \in CtrlTypeRequests : srvcllbck_setCtrlType(v)

GetRequest ==
    \/ srvcllbck_getPoseSetPoint
    \/ srvcllbck_getPoseCtrlGain
    \/ srvcllbck_getCtrlType

Next ==
    \/ \E v \in ParamValues : SetParam(v)
    \/ getParamWithWait
    \/ nodeMain
    \/ SensorCallback
    \/ SetRequest
    \/ GetRequest

Spec == Init /\ [][Next]_vars

(***************************************************************************)
(* The main thread is never starved: the busy wait of getParamWithWait     *)
(* keeps polling, so once the parameter exists the poll that sees it       *)
(* happens.                                                                *)
(***************************************************************************)
SpecFair == Spec /\ WF_vars(getParamWithWait)

(***************************************************************************)
(* The set-point services on their own: the running node, serving          *)
(* set_pose_set_point and get_pose_set_point requests only.                *)
(***************************************************************************)
InitPose ==
    /\ pc = "l150"
    /\ param \in ParamValues
    /\ drive_side = param
    /\ geometry = tr_base_piFlp
    /\ kin = Kinematics(tr_base_piFlp)
    /\ Constructed

NextPose ==
    \/ \E r \in PoseCases : srvcllbck_setPoseSetPoint_ori(r)
    \/ srvcllbck_setPoseSetPoint_dq
    \/ srvcllbck_getPoseSetPoint

SpecPose == InitPose /\ [][NextPose]_vars

(***************************************************************************)
(* The kinematic precomputation on its own: lines 97-106 of __init__ for   *)
(* any mounting geometry of the grid, the parameter having been read.      *)
(***************************************************************************)
InitKin ==
    /\ pc = "l97"
    /\ param \in ParamValues
    /\ drive_side = param
    /\ geometry \in Geometries
    /\ kin = NoKin
    /\ Constructed

NextKin == init_97 \/ init_100 \/ init_103 \/ init_106

SpecKin == InitKin /\ [][NextKin]_vars

(***************************************************************************)
(* Vocabulary of the properties.                                           *)
(***************************************************************************)
AllSet == msg_imu # None /\ msg_grndDist # None /\ msg_jointState # None

\* the tick has published its command
HasCmd(o) == Len(o) >= 1 /\ o[1].topic = "cmd_v_z"

\* the lines at which nodeMain is between ticks or in the gate of lines 150-153
GateLines == { "l58", "l150", "l153", "l258", "exit" }

\* a step of the main thread
TickStep == pc' # pc

\* the three valid control types
ValidCtrlTypes == { 1, 2, 3 }

\* the sign-corrected flipper joints of a JointState are at their set-points
FlippersAtTarget(position) ==
    correctFlippersJointSignal(SubSeq(position, 5, 8)) = flpJointPosSp_l

\* the pose of translation [0, 0, 0] and identity orientation
IdentityPose == convertSetPoints2DqFormat(<< 0, 0, 0 >>, << 0, 0, 0 >>)[2]

\* gains in tenths: every pose gain with each of its six entries 0, 1.0 or 3.5
GainCases ==
    { DQ(GainDen, k[1], k[2], k[3], GainDen, k[4], k[5], k[6]) :
        k \in [1..6 -> { 0, 10, 35 }] }

\* roll-pitch-yaw in degrees away from gimbal lock
AwayFromGimbalLock(rpy) == rpy[2] # 90 /\ rpy[2] # -90

\* roll-pitch-yaw in the range a reconstruction from the quaternion answers in
InPrincipalRange(rpy) ==
    /\ -180 < rpy[1] /\ rpy[1] <= 180
    /\ -90 < rpy[2] /\ rpy[2] < 90
    /\ -180 < rpy[3] /\ rpy[3] <= 180

\* the topics of a sequence of published messages
Topics(o) == [i \in 1..Len(o) |-> o[i].topic]

\* what lines 233-255 publish, in order
TickOutput == << "cmd_v_z", "pose_current", "pose_sp", "pose_error", "sp_dq" >>

\* lines 248-249: the orientation error as a dual quaternion with a zero dual part
ZeroPadded(e_o) == DQ(e_o[1], e_o[2], e_o[3], e_o[4], 0, 0, 0, 0)

(***************************************************************************)
(* C1.  A set_ctrl_type request whose value is outside {1, 2, 3} leaves    *)
(* the active control type as it was, whatever it was, and answers -1.     *)
(***************************************************************************)
C1_InvalidCtrlTypeRejected ==
    [][\A v \in CtrlTypeRequests \ ValidCtrlTypes :
          srvcllbck_setCtrlType(v)
            => /\ ctrlType_curr' = ctrlType_curr
               /\ srvResp' = [srv |-> "setCtrlType", ret |-> << -1 >>]]_vars

\* a request was rejected while a control type other than the default was active
C1_Witness ==
    /\ srvResp = [srv |-> "setCtrlType", ret |-> << -1 >>]
    /\ ctrlType_curr = 2

C3_NoOutputUntilAllSensors ==
    ~AllSet => (out = << >> /\ pc \in GateLines)

\* a tick of the active node was skipped with only the IMU missing, after a
\* reconfiguration request
C3_Witness ==
    /\ pc = "l258" /\ branch = "notready"
    /\ msg_imu = None /\ msg_grndDist # None /\ msg_jointState # None
    /\ nReq > 0

(***************************************************************************)
(* C4 as stated.  Once the three sensor messages are set, every tick emits *)
(* a command: a tick that finds them set is never skipped.                 *)
(***************************************************************************)
C4_EveryTickEmits ==
    [][(pc \in { "l150", "l153" } /\ AllSet /\ TickStep) => pc' # "l258"]_vars

(***************************************************************************)
(* C4 as amended.  The three sensor messages stay set once set; from then  *)
(* on every tick that finds the node active passes the gate, and every     *)
(* tick that passes the gate publishes its command, also when no sensor    *)
(* has been updated since the tick before.                                 *)
(***************************************************************************)
C4_EveryActiveTickEmits ==
    [][/\ AllSet => AllSet'
       /\ (pc = "l150" /\ AllSet /\ active /\ TickStep) => pc' = "l153"
       /\ (pc = "l153" /\ AllSet /\ TickStep) => pc' = "l157"
       /\ (pc' \in { "l258", "crashed" } /\ branch' \notin { "inactive", "notready" })
            => HasCmd(out')]_vars

\* a tick after the first one has published its command
C4_Witness ==
    /\ pc = "l242" /\ branch = "ori"
    /\ e_a_R_dq # None
    /\ HasCmd(out)

(***************************************************************************)
(* C5.  A tick that finds the node not active goes straight to the sleep   *)
(* of line 258 and publishes nothing, whatever the sensors and the control *)
(* type are; it does not fail.                                             *)
(***************************************************************************)
C5_InactiveTickIdle ==
    [][/\ (pc = "l150" /\ ~active /\ TickStep)
            => (pc' = "l258" /\ branch' = "inactive" /\ out' = << >>)
       /\ branch' = "inactive" => (pc' = "l258" /\ out' = << >>)]_vars

\* an idle tick of the inactive node with every sensor set, in articulation mode
C5_Witness ==
    /\ pc = "l258" /\ branch = "inactive"
    /\ AllSet /\ ~active
    /\ ctrlType_curr = 3

(***************************************************************************)
(* C6.  A tick never sees a torn record.  In a tick of an orientation mode *)
(* the set-point orientation it computed the error from (line 174) is the  *)
(* rotation of the set-point pose it publishes (line 242), and the         *)
(* orientation gain it computed the command from (line 177) is the         *)
(* rotation part of the gain it publishes (line 254).                      *)
(***************************************************************************)
C6_NoTornRecord ==
    /\ (pc \in { "l246a", "l246b" } /\ branch \in { "ori", "ns" })
         => e_o_R_q = OriError(DQPrimary(out[3].data), x_o_R_q)
    /\ (pc = "l258" /\ branch = "ori")
         => u_Pi_v = OriCmd(DQPrimary(out[5].data), e_o_R_q)

(***************************************************************************)
(* C7.  The active control type is always one of 1, 2, 3, and it is 1      *)
(* (orientation) until a request has been served.                          *)
(***************************************************************************)
C7_CtrlTypeValid ==
    /\ ctrlType_curr \in ValidCtrlTypes
    /\ nReq = 0 => ctrlType_curr = 1

\* articulation is active after an accepted and a rejected request
C7_Witness ==
    /\ ctrlType_curr = 3
    /\ srvResp = [srv |-> "setCtrlType", ret |-> << -1 >>]
    /\ pc = "l258" /\ HasCmd(out)

(***************************************************************************)
(* C8.  Set-point, gains and control type change only through their own    *)
(* requests: a step that changes the set-point is a step of                *)
(* set_pose_set_point and leaves gains and control type unchanged, a step  *)
(* that changes the gains is a step of set_pose_ctrl_gain and leaves       *)
(* set-point and control type unchanged, a step that changes the control   *)
(* type is a step of set_ctrl_type and leaves set-point and gains          *)
(* unchanged.  So a step of nodeMain, a sensor callback and a get request  *)
(* change none of the three.                                               *)
(***************************************************************************)
C8_Frame ==
    [][/\ setpoint' # setpoint
            => /\ \/ \E r \in PoseRequests : srvcllbck_setPoseSetPoint_ori(r)
                  \/ srvcllbck_setPoseSetPoint_dq
               /\ UNCHANGED << gains, ctrlType_curr >>
       /\ gains' # gains
            => /\ \/ \E r \in GainRequests : srvcllbck_setPoseCtrlGain_o(r)
                  \/ srvcllbck_setPoseCtrlGain_a
               /\ UNCHANGED << setpoint, ctrlType_curr >>
       /\ ctrlType_curr' # ctrlType_curr
            => /\ \E v \in CtrlTypeRequests : srvcllbck_setCtrlType(v)
               /\ UNCHANGED << setpoint, gains >>]_vars

\* a tick has run to its end with a set-point and gains that requests have set
C8_Witness ==
    /\ pc = "l258" /\ Len(out) = 5
    /\ x_sp_dq # convertSetPoints2DqFormat(x_sp_tr0, x_sp_ori_rpy0)[2]
    /\ kp_a_dq[2] # kp_rot_v0[1]
    /\ posePend = None /\ gainPend = None

(***************************************************************************)
(* C9.  In orientationNullSpace mode, when the sign-corrected flipper      *)
(* joints are at their set-points, the null-space step adds zero: the      *)
(* command stays the one the orientation law computed at line 179 from the *)
(* same error and gain.                                                    *)
(***************************************************************************)
C9_NullSpaceAtTargetIsOrientation ==
    [][/\ (pc = "l177" /\ TickStep) => u_Pi_v' = OriCmd(kp_o_q, e_o_R_q)
       /\ (pc = "l185" /\ TickStep /\ FlippersAtTarget(msg_jointState))
            => u_Pi_v' = u_Pi_v]_vars

\* a null-space tick with the flippers at their set-points and a command that
\* is not zero
C9_Witness ==
    /\ pc = "l226" /\ branch = "ns"
    /\ FlippersAtTarget(msg_jointState)
    /\ u_Pi_v = OriCmd(kp_o_q, e_o_R_q)
    /\ u_Pi_v # ZeroCmd

(***************************************************************************)
(* C10.  get_pose_ctrl_gain answers the two triples of the last            *)
(* set_pose_ctrl_gain request that returned, orientation gains first, and  *)
(* the defaults [2, 4, 1] and [1, 1, 0.8] before any.                      *)
(***************************************************************************)
C10_GainRoundTrip ==
    [][srvcllbck_getPoseCtrlGain
         => srvResp'.ret = IF lastGainReq = None
                           THEN << << 20, 40, 10 >>, << 10, 10, 8 >> >>
                           ELSE lastGainReq]_vars

\* the gains of a request were read back
C10_Witness ==
    srvResp = [srv |-> "getPoseCtrlGain",
               ret |-> << << 30, 50, 70 >>, << 90, 110, 130 >> >>]

(***************************************************************************)
(* C11.  In articulation mode, a tick that reads the set-point pose of     *)
(* translation [0, 0, 0] and identity orientation while its current pose   *)
(* is that same pose computes the identity error, the command it computes  *)
(* from that error is zero for all four units whatever the gains are, and  *)
(* that command is the one it publishes.                                   *)
(***************************************************************************)
C11_ArticulationAtSetPointIsZero ==
    [][/\ (pc = "l201" /\ TickStep /\ x_sp_dq = IdentityPose /\ x_a_R_dq = IdentityPose)
            => e_a_R_dq' = ArtError(IdentityPose, IdentityPose)
       /\ (pc = "l204" /\ TickStep /\ e_a_R_dq = ArtError(IdentityPose, IdentityPose))
            => /\ u_Pi_v' = ZeroCmd
               /\ \A kp \in GainCases : ArtCmd(kp, e_a_R_dq) = ZeroCmd
       /\ (pc = "l226" /\ TickStep) => out' = << Msg("cmd_v_z", u_Pi_v),
                                                 Msg("pose_current", vec8(x_a_R_dq)) >>]_vars

\* an articulation tick at the identity set-point has published the zero command
C11_Witness ==
    /\ pc = "l242" /\ branch = "art"
    /\ x_sp_dq = IdentityPose /\ x_a_R_dq = IdentityPose
    /\ e_a_R_dq = ArtError(IdentityPose, IdentityPose)
    /\ out[1] = Msg("cmd_v_z", ZeroCmd)

C13_ProjectorIdempotent ==
    pc \in { "l106", "l111" } =>
        LET A == kin.J_ori_dagger
            J == kin.J_ori.num
            den == kin.J_ori.den
            P == kin.J_ori_nsproj
        IN  /\ den > 0
            /\ MatMul(P, P) = [r \in 1..4 |-> [c \in 1..4 |-> den * P[r][c]]]
            /\ MatMul(MatMul(A, J), P) = [r \in 1..4 |-> [c \in 1..4 |-> 0]]
            /\ MatMul(J, P) = [r \in 1..2 |-> [c \in 1..4 |-> 0]]

\* the robot's own geometry: a projector that is neither zero nor the identity,
\* and the one the control law of line 191 uses
C13_Witness ==
    /\ pc = "l111"
    /\ geometry = tr_base_piFlp
    /\ kin.J_ori_nsproj = J_ori_nsproj
    /\ kin.J_ori_nsproj[1][1] \notin { 0, kin.J_ori.den }
    /\ kin.J_ori_nsproj[1][4] # 0

(***************************************************************************)
(* C14.  No tick takes the else branch of lines 217-218: whatever          *)
(* set_ctrl_type requests are served while a tick runs, the command of     *)
(* every tick is that of the orientation, null-space or articulation law.  *)
(***************************************************************************)
C14_InvalidBranchNeverTaken ==
    /\ branch # "invalid"
    /\ (pc \in { "l226", "l242", "l246a", "l246b", "l254" })
         => branch \in { "ori", "ns", "art" }

(***************************************************************************)
(* C15.  A tick that passes the gates of lines 150 and 153 publishes the   *)
(* command, with four entries, then the current pose, the set-point pose,  *)
(* the pose error and the gain, once each and in that order, before it     *)
(* sleeps; nodeMain never ends in an exception in between.  A tick that    *)
(* does not pass the gates publishes nothing.                              *)
(***************************************************************************)
C15_FiveOutputsInOrder ==
    /\ pc # "crashed"
    /\ Topics(out) = SubSeq(TickOutput, 1, Len(out))
    /\ HasCmd(out) => Len(out[1].data) = 4
    /\ pc = "l258" => IF branch \in { "inactive", "notready" }
                      THEN out = << >>
                      ELSE Len(out) = 5

(***************************************************************************)
(* C16.  A tick that computed its command by the orientation law (lines    *)
(* 174-194, with or without the null-space term) publishes as pose error   *)
(* the orientation error of line 174 of that tick with a zero dual part,   *)
(* and does not end in an exception instead.                               *)
(***************************************************************************)
C16_OriErrorDiagnostic ==
    /\ pc = "crashed" => branch \notin { "ori", "ns" }
    /\ (pc \in { "l254", "l258" } /\ branch \in { "ori", "ns" })
         => out[4] = Msg("pose_error", ZeroPadded(e_o_R_q))

(***************************************************************************)
(* C19.  The pose error a tick publishes is the error that tick computed   *)
(* by the law that computed its command: the zero-padded orientation error *)
(* of line 174 after the orientation laws, the pose error of line 201      *)
(* after the articulation law; the step of lines 246-251 never raises and  *)
(* never publishes an error left over from an earlier tick, also when      *)
(* set_ctrl_type is served between line 171 and line 246.                  *)
(***************************************************************************)
C19_ErrorIsThisTicks ==
    [][(/\ pc \in { "l246a", "l246b" } /\ TickStep /\ pc' # "l246b"
        /\ branch \in { "ori", "ns", "art" })
         => /\ pc' = "l254"
            /\ out'[4] = Msg("pose_error",
                             IF branch = "art" THEN vec8(e_a_R_dq)
                                               ELSE ZeroPadded(e_o_R_q))]_vars

(***************************************************************************)
(* C18.  Startup blocks on /rosi/forward_side.  While line 58 waits,       *)
(* nothing is registered or published: no sensor message is stored, no     *)
(* request is served, no tick runs.  The wait cannot end while the         *)
(* parameter does not exist, the loop runs only with the parameter read,   *)
(* and once the parameter exists the wait ends and the loop is entered.    *)
(***************************************************************************)
C18_StartupBlocksOnParam ==
    /\ [](pc = "l58" => /\ out = << >> /\ branch = "none" /\ drive_side = None
                        /\ sensors = << None, None, None >> /\ nReq = 0)
    /\ [](pc \in Running => drive_side # None)
    /\ [][(pc = "l58" /\ param = None) => pc' = "l58"]_vars
    /\ [][pc = "l58" => pc' \in { "l58", "l150" }]_vars
    /\ (param # None) ~> (pc # "l58")

\* the parameter was set after the wait had begun, and the loop has run a tick
C18_Witness ==
    /\ pc = "l258" /\ Len(out) = 5
    /\ drive_side = param /\ param # None

(***************************************************************************)
(* C20.  The three sensor fields start unset; a step that changes them is  *)
(* a topic callback storing its message in its own field and leaving the   *)
(* other two as they are; no step returns a field to unset.  So once the   *)
(* three are set they stay set, and the test of line 153 passes in every   *)
(* later tick.                                                             *)
(***************************************************************************)
C20_SensorReadinessMonotonic ==
    /\ sensors = << None, None, None >>
    /\ [][/\ sensors' # sensors
                => \/ \E m \in ImuValues :
                        /\ cllbck_imu(m)
                        /\ msg_imu' = m
                        /\ UNCHANGED << msg_grndDist, msg_jointState >>
                   \/ \E z \in GrndDistValues :
                        /\ cllbck_grndDist(<< z >>)
                        /\ msg_grndDist' = << z >>
                        /\ UNCHANGED << msg_imu, msg_jointState >>
                   \/ \E p \in JointPosValues :
                        /\ cllbck_jointState(p)
                        /\ msg_jointState' = p
                        /\ UNCHANGED << msg_imu, msg_grndDist >>
          /\ msg_imu # None => msg_imu' # None
          /\ msg_grndDist # None => msg_grndDist' # None
          /\ msg_jointState # None => msg_jointState' # None
          /\ AllSet => AllSet'
          /\ (pc = "l153" /\ AllSet /\ TickStep) => pc' = "l157"]_vars

\* a later tick has passed the gate after the IMU field alone was overwritten:
\* no request was served, and the orientation error of the tick before differs
\* from the one this tick is about to compute
C20_Witness ==
    /\ pc = "l174" /\ AllSet /\ nReq = 0
    /\ e_o_R_q # None
    /\ e_o_R_q # OriError(x_sp_ori_q, x_o_R_q)

====
